---- MODULE Spec2Model ----
(* Model of the wapm-shell CommandRunner                                     *)
(* (examples/wapm-shell/services/command-runner/command-runner.ts).          *)
(* One CommandRunner instance is constructed for one command line and        *)
(* runCommand is invoked on it once; kill() may be invoked at any time.      *)
(* JavaScript arrays are 0-based, TLA+ sequences 1-based: stage index i of   *)
(* the code is element i + 1 of commandOptionsForProcessesToRun.             *)
EXTENDS Integers, Sequences, FiniteSets, TLC

VARIABLES
  commandString,                      \* this.commandString, as the parser sees it
  pc,                                 \* position of the async runCommand
  commandOptionsForProcessesToRun,    \* this.commandOptionsForProcessesToRun
  spawnedProcessObjects,              \* this.spawnedProcessObjects (handles into procs)
  initialStdinDataForNextProcess,     \* this.initialStdinDataForNextProcess
  isRunning,                          \* this.isRunning
  xterm,                              \* the text written with this.xterm.write
  endCalls,                           \* number of this.commandEndCallback() calls
  procs,                              \* every Process constructed, in construction order
  lastOp                              \* the handler that ran last, and whether kill() was called

vars == <<commandString, pc, commandOptionsForProcessesToRun,
          spawnedProcessObjects, initialStdinDataForNextProcess, isRunning,
          xterm, endCalls, procs, lastOp>>

-----------------------------------------------------------------------------
(* Bounds of the model *)

\* longest pipe chain offered as input
MaxStages == 3
\* largest number of bytes a unit hands over in one data callback
MaxChunk == 2

-----------------------------------------------------------------------------
(* Program constants *)

\* tryToSpawnProcess: this.spawnedProcessObjects.length < 2
SpawnCeiling == 2
\* "\n", "\r" and U+FFFD REPLACEMENT CHARACTER
LF == 10
CR == 13
ReplacementChar == 65533

-----------------------------------------------------------------------------
(* Sequence helpers *)

\* A shift that removes nothing
Shift_Identity(s) == s

\* Array.prototype.shift on a possibly empty array
Shift(s) == IF s = <<>> THEN <<>> ELSE Tail(s)

RECURSIVE Flatten(_)
Flatten(ss) == IF ss = <<>> THEN <<>> ELSE Head(ss) \o Flatten(Tail(ss))

RECURSIVE SeqsUpTo(_, _)
SeqsUpTo(S, n) ==
  IF n = 0 THEN {<<>>}
  ELSE LET shorter == SeqsUpTo(S, n - 1)
       IN  shorter \cup {Append(s, x) : s \in {t \in shorter : Len(t) = n - 1}, x \in S}

-----------------------------------------------------------------------------
(* The command line and its AST (shell-parse)                                *)

\* One written stage: command name, arguments, environment bindings and the
\* operator that joins it to the stage written after it.
StageChoices ==
  { [command |-> "a",      args |-> <<>>,         env |-> <<>>,             redirect |-> "pipe"],
    [command |-> "a",      args |-> <<"x", "n">>, env |-> <<>>,             redirect |-> "pipe"],
    [command |-> "cowsay", args |-> <<"e">>,      env |-> <<<<"K", "v">>>>, redirect |-> "pipe"],
    [command |-> "cowsay", args |-> <<>>,         env |-> <<>>,             redirect |-> "redirectFd"],
    [command |-> "nope",   args |-> <<>>,         env |-> <<>>,             redirect |-> "pipe"] }

Chains == SeqsUpTo(StageChoices, MaxStages) \ {<<>>}

\* The AST node shell-parse produces for a written chain: a command node whose
\* redirects hold the pipe to the rest of the chain.  A stage joined by a file
\* redirect carries that redirect first and the pipe second ("a > f | b").
RECURSIVE MkAst(_)
MkAst(chain) ==
  LET st == Head(chain)
      pipe == [type |-> "pipe", command |-> MkAst(Tail(chain))]
  IN  [type      |-> "command",
       command   |-> [value |-> st.command],
       args      |-> [k \in 1..Len(st.args) |-> [value |-> st.args[k]]],
       env       |-> [k \in 1..Len(st.env) |-> <<st.env[k][1], [value |-> st.env[k][2]]>>],
       redirects |-> IF Len(chain) = 1 THEN <<>>
                     ELSE IF st.redirect = "pipe" THEN <<pipe>>
                     ELSE <<[type |-> "redirectFd"], pipe>>]

NonCommand == [type |-> "variableAssignment"]

\* A command line: the chain as written (of its first statement, when that
\* is a command) and what parse(this.commandString) yields for it: a syntax
\* error, or the sequence of top-level statements.
CommandLine(ok, chain, statements) ==
  [syntaxOk |-> ok, chain |-> chain, statements |-> statements]

CommandStrings ==
       {CommandLine(FALSE, <<>>, <<>>)}
  \cup {CommandLine(TRUE, <<>>, <<>>)}
  \cup {CommandLine(TRUE, c, <<MkAst(c)>>) : c \in Chains}
  \cup {CommandLine(TRUE, <<>>, <<NonCommand>>)}
  \cup {CommandLine(TRUE, c, <<MkAst(c), MkAst(c)>>) : c \in {c \in Chains : Len(c) = 1}}
  \cup {CommandLine(TRUE, <<>>, <<NonCommand, NonCommand>>)}

-----------------------------------------------------------------------------
(* Errors and terminal text *)

JsError(name, message) == [name |-> name, message |-> message]

\* Error.prototype.toString: name + ": " + message
ErrorToString(c) == <<c.name, ": ", c.message>>

\* The terminal's text is a sequence of cells: a cell is one decoded
\* character of program output, or one piece of a diagnostic's template.
\* xterm.write(string) appends the cells of the string.
WriteText(text) == [k \in 1..Len(text) |-> [str |-> text[k], ch |-> -1]]
WriteChars(chars) == [k \in 1..Len(chars) |-> [str |-> "", ch |-> chars[k]]]

ParseErrorText(c) == <<"wapm shell: parse error (">> \o ErrorToString(c) \o <<")\r\n">>

ProgramErrorText(name, error) == <<"Program ", name, ": ", error, "\r\n">>

\* new TextDecoder("utf-8").decode(data) of one chunk, for bytes below 0xE0:
\* ASCII, two-byte sequences, and U+FFFD for a lead byte without its
\* continuation byte or a continuation byte without its lead.
RECURSIVE TextDecode(_)
TextDecode(data) ==
  IF data = <<>> THEN <<>>
  ELSE LET b == Head(data)
       IN  IF b < 128 THEN <<b>> \o TextDecode(Tail(data))
           ELSE IF b >= 194 /\ b <= 223 /\ Len(data) >= 2 /\ data[2] >= 128 /\ data[2] <= 191
                THEN <<(b - 192) * 64 + (data[2] - 128)>> \o TextDecode(Tail(Tail(data)))
                ELSE <<ReplacementChar>> \o TextDecode(Tail(data))

\* dataString.replace(/\n/g, "\r\n")
RECURSIVE ReplaceLF(_)
ReplaceLF(str) ==
  IF str = <<>> THEN <<>>
  ELSE (IF Head(str) = LF THEN <<CR, LF>> ELSE <<Head(str)>>) \o ReplaceLF(Tail(str))

-----------------------------------------------------------------------------
(* getCommandOptionsFromAST *)

\* commandCache.getWasmModuleForCommandName: the module of a known command,
\* or a rejection.
Resolvable == {"a", "cowsay"}

GetWasmModuleForCommandName(command) ==
  IF command \in Resolvable
  THEN [ok |-> TRUE, value |-> command]
  ELSE [ok |-> FALSE, error |-> JsError("Error", "command not found")]

\* Object.fromEntries(Object.entries(ast.env).map(([k, v]) => [k, v.value]))
EnvOf(ast) == [k \in 1..Len(ast.env) |-> <<ast.env[k][1], ast.env[k][2].value>>]

\* getCommandOptionsFromAST with commandOptions.push in place of unshift:
\* the stage's own options land behind those of the stages piped after it.
RECURSIVE GetCommandOptionsFromAST_Push(_)
GetCommandOptionsFromAST_Push(ast) ==
  LET command == ast.command.value
      commandArgs == [k \in 1..Len(ast.args) |-> ast.args[k].value]
      args == <<command>> \o commandArgs
      followsPipe == /\ Len(ast.redirects) > 0
                     /\ ast.redirects[1].type = "pipe"
      redirectTask == IF followsPipe
                      THEN GetCommandOptionsFromAST_Push(ast.redirects[1].command)
                      ELSE [ok |-> TRUE, value |-> <<>>]
      wasmModule == GetWasmModuleForCommandName(command)
  IN  IF ~redirectTask.ok THEN redirectTask
      ELSE IF ~wasmModule.ok THEN wasmModule
      ELSE [ok |-> TRUE,
            value |-> Append(redirectTask.value,
                             [args |-> args, env |-> EnvOf(ast), module |-> wasmModule.value])]

\* The promise's outcome: [ok |-> TRUE, value |-> command options] or
\* [ok |-> FALSE, error |-> rejection].
RECURSIVE GetCommandOptionsFromAST(_)
GetCommandOptionsFromAST(ast) ==
  LET command == ast.command.value
      commandArgs == [k \in 1..Len(ast.args) |-> ast.args[k].value]
      args == <<command>> \o commandArgs
      env == EnvOf(ast)
      followsPipe == /\ Len(ast.redirects) > 0
                     /\ ast.redirects[1].type = "pipe"
      redirectTask == IF followsPipe
                      THEN GetCommandOptionsFromAST(ast.redirects[1].command)
                      ELSE [ok |-> TRUE, value |-> <<>>]
      wasmModule == GetWasmModuleForCommandName(command)
  IN  IF ~redirectTask.ok THEN redirectTask
      ELSE IF ~wasmModule.ok THEN wasmModule
      ELSE [ok |-> TRUE,
            value |-> <<[args |-> args, env |-> env, module |-> wasmModule.value]>>
                      \o redirectTask.value]

-----------------------------------------------------------------------------
Init ==
  /\ commandString \in CommandStrings
  /\ pc = "init"
  /\ commandOptionsForProcessesToRun = <<>>
  /\ spawnedProcessObjects = <<>>
  /\ initialStdinDataForNextProcess = <<>>
  /\ isRunning = FALSE
  /\ xterm = <<>>
  /\ endCalls = 0
  /\ procs = <<>>
  /\ lastOp = [op |-> "new", idx |-> -1, running |-> FALSE, threw |-> FALSE,
               killed |-> FALSE]

-----------------------------------------------------------------------------
(* Execution units (class Process)                                           *)

\* Bytes a program writes for one argument.
ArgBytes(arg) ==
  CASE arg = "x" -> <<97>>
    [] arg = "e" -> <<195, 169>>
    [] arg = "n" -> <<LF>>
    [] OTHER     -> <<>>

\* What the program of a stage writes to stdout in all, given everything it
\* reads from stdin: its arguments, then stdin byte by byte ("a" copies each
\* byte, "cowsay" follows each byte with a line feed).
ProgramOutput(options, stdin) ==
  LET fromArgs == Flatten([k \in 1..(Len(options.args) - 1) |-> ArgBytes(options.args[k + 1])])
      fromStdin == IF options.module = "a" THEN stdin
                   ELSE Flatten([k \in 1..Len(stdin) |-> <<stdin[k], LF>>])
  IN  fromArgs \o fromStdin

ErrorMessages == {"trap"}

-----------------------------------------------------------------------------
(* class CommandRunner: the handlers, as functions of the runner's state     *)

This ==
  [commandOptionsForProcessesToRun |-> commandOptionsForProcessesToRun,
   spawnedProcessObjects           |-> spawnedProcessObjects,
   initialStdinDataForNextProcess  |-> initialStdinDataForNextProcess,
   isRunning                       |-> isRunning,
   xterm                           |-> xterm,
   endCalls                        |-> endCalls,
   procs                           |-> procs,
   threw                           |-> FALSE]

\* this.commandEndCallback()
CommandEndCallback(t) == [t EXCEPT !.endCalls = @ + 1]

\* new Process(options, dataCallback, endCallback, errorCallback, stdin) with
\* the callbacks bound to commandOptionIndex; the process object returned has
\* no worker.
SpawnProcessAsService(t, commandOptionIndex) ==
  LET stdin == IF Len(t.initialStdinDataForNextProcess) > 0
               THEN t.initialStdinDataForNextProcess
               ELSE <<>>
  IN  [idx          |-> commandOptionIndex,
       options      |-> t.commandOptionsForProcessesToRun[commandOptionIndex + 1],
       initialStdin |-> stdin,
       stdin        |-> stdin,
       out          |-> <<>>,
       status       |-> "created",
       worker       |-> FALSE]

\* spawnProcess up to its await: the SharedArrayBuffer branch is disabled by
\* "&& false", so the unit is always created by spawnProcessAsService.
SpawnProcess(t, commandOptionIndex) ==
  [t EXCEPT !.procs = Append(@, SpawnProcessAsService(t, commandOptionIndex))]

\* spawnProcess with the eager spawn of its TODO enabled: once the unit is
\* recorded, this.tryToSpawnProcess(commandOptionIndex + 1) runs up to its
\* await.
SpawnProcessResume_Eager(t, h) ==
  LET cleared == IF Len(t.initialStdinDataForNextProcess) > 0
                 THEN [t EXCEPT !.initialStdinDataForNextProcess = <<>>]
                 ELSE t
      recorded == [cleared EXCEPT !.spawnedProcessObjects = Append(@, h)]
      next == IF /\ Len(recorded.spawnedProcessObjects) < SpawnCeiling
                 /\ t.procs[h].idx + 1 < Len(recorded.commandOptionsForProcessesToRun)
              THEN SpawnProcess(recorded, t.procs[h].idx + 1)
              ELSE recorded
  IN  [next EXCEPT !.procs[h].status = "started"]

\* spawnProcess that never resets initialStdinDataForNextProcess.
SpawnProcessResume_NoClear(t, h) ==
  [t EXCEPT !.spawnedProcessObjects = Append(@, h),
            !.procs[h].status = "started"]

\* spawnProcess after its await, for the process object h it created.
SpawnProcessResume(t, h) ==
  LET cleared == IF Len(t.initialStdinDataForNextProcess) > 0
                 THEN [t EXCEPT !.initialStdinDataForNextProcess = <<>>]
                 ELSE t
  IN  [cleared EXCEPT !.spawnedProcessObjects = Append(@, h),
                      !.procs[h].status = "started"]

TryToSpawnProcess(t, commandOptionIndex) ==
  IF /\ Len(t.spawnedProcessObjects) < SpawnCeiling
     /\ commandOptionIndex < Len(t.commandOptionsForProcessesToRun)
  THEN SpawnProcess(t, commandOptionIndex)
  ELSE t

\* process.receiveStdinChunk(data) on process object h
ReceiveStdinChunk(t, h, data) == [t EXCEPT !.procs[h].stdin = @ \o data]

\* processDataCallback that puts a new chunk in front of the buffered bytes.
ProcessDataCallback_Prepend(t, commandOptionIndex, data) ==
  IF commandOptionIndex < Len(t.commandOptionsForProcessesToRun) - 1
  THEN IF Len(t.spawnedProcessObjects) > 1
       THEN ReceiveStdinChunk(t, t.spawnedProcessObjects[2], data)
       ELSE [t EXCEPT !.initialStdinDataForNextProcess = data \o @]
  ELSE [t EXCEPT !.xterm = @ \o WriteChars(ReplaceLF(TextDecode(data)))]

ProcessDataCallback(t, commandOptionIndex, data) ==
  IF commandOptionIndex < Len(t.commandOptionsForProcessesToRun) - 1
  THEN IF Len(t.spawnedProcessObjects) > 1
       THEN ReceiveStdinChunk(t, t.spawnedProcessObjects[2], data)
       ELSE [t EXCEPT !.initialStdinDataForNextProcess = @ \o data]
  ELSE [t EXCEPT !.xterm = @ \o WriteChars(ReplaceLF(TextDecode(data)))]

\* processEndCallback that leaves the finished unit in the live set and
\* calls spawnProcess for the next stage without the ceiling check.
ProcessEndCallback_NoRetire(t, commandOptionIndex) ==
  IF commandOptionIndex < Len(t.commandOptionsForProcessesToRun) - 1
  THEN SpawnProcess(t, commandOptionIndex + 1)
  ELSE CommandEndCallback([t EXCEPT !.isRunning = FALSE])

\* processEndCallback that retires the unit and never spawns the next stage.
ProcessEndCallback_NoAdvance(t, commandOptionIndex) ==
  LET shifted == [t EXCEPT !.spawnedProcessObjects = Shift(@)]
  IN  IF commandOptionIndex < Len(t.commandOptionsForProcessesToRun) - 1
      THEN shifted
      ELSE CommandEndCallback([shifted EXCEPT !.isRunning = FALSE])

\* processEndCallback that advances by two stages.
ProcessEndCallback_Skip(t, commandOptionIndex) ==
  LET shifted == [t EXCEPT !.spawnedProcessObjects = Shift(@)]
  IN  IF commandOptionIndex < Len(t.commandOptionsForProcessesToRun) - 1
      THEN TryToSpawnProcess(shifted, commandOptionIndex + 2)
      ELSE CommandEndCallback([shifted EXCEPT !.isRunning = FALSE])

ProcessEndCallback(t, commandOptionIndex) ==
  LET shifted == [t EXCEPT !.spawnedProcessObjects = Shift(@)]
  IN  IF commandOptionIndex < Len(t.commandOptionsForProcessesToRun) - 1
      THEN TryToSpawnProcess(shifted, commandOptionIndex + 1)
      ELSE CommandEndCallback([shifted EXCEPT !.isRunning = FALSE])

\* kill() without the isRunning check.
Kill_Unguarded(t) ==
  CommandEndCallback(
    [t EXCEPT !.commandOptionsForProcessesToRun = <<>>,
              !.spawnedProcessObjects = <<>>,
              !.isRunning = FALSE])

\* kill(): only process objects with a worker are terminated.
Kill(t) ==
  IF ~t.isRunning THEN t
  ELSE LET terminated ==
             [t EXCEPT !.procs =
                [h \in 1..Len(t.procs) |->
                   IF /\ \E k \in 1..Len(t.spawnedProcessObjects) : t.spawnedProcessObjects[k] = h
                      /\ t.procs[h].worker
                   THEN [t.procs[h] EXCEPT !.status = "terminated"]
                   ELSE t.procs[h]]]
       IN  CommandEndCallback(
             [terminated EXCEPT !.commandOptionsForProcessesToRun = <<>>,
                                !.spawnedProcessObjects = <<>>,
                                !.isRunning = FALSE])

\* processErrorCallback that reports the error without calling kill().
ProcessErrorCallback_NoKill(t, commandOptionIndex, error) ==
  IF commandOptionIndex >= Len(t.commandOptionsForProcessesToRun)
  THEN [t EXCEPT !.threw = TRUE]
  ELSE LET name == t.commandOptionsForProcessesToRun[commandOptionIndex + 1].args[1]
       IN  CommandEndCallback(
             [t EXCEPT !.xterm = @ \o WriteText(ProgramErrorText(name, error))])

\* Reading .args of a missing element of commandOptionsForProcessesToRun
\* throws a TypeError out of the handler before anything is written.
ProcessErrorCallback(t, commandOptionIndex, error) ==
  IF commandOptionIndex >= Len(t.commandOptionsForProcessesToRun)
  THEN [t EXCEPT !.threw = TRUE]
  ELSE LET name == t.commandOptionsForProcessesToRun[commandOptionIndex + 1].args[1]
           written == [t EXCEPT !.xterm = @ \o WriteText(ProgramErrorText(name, error))]
       IN  CommandEndCallback(Kill(written))

\* A catch block that reports the error and never calls the end callback.
RunCommandCatch_NoCallback(t, c) ==
  [t EXCEPT !.xterm = @ \o WriteText(ParseErrorText(c))]

\* The catch block of runCommand
RunCommandCatch(t, c) ==
  CommandEndCallback([t EXCEPT !.xterm = @ \o WriteText(ParseErrorText(c))])

-----------------------------------------------------------------------------
(* Actions *)

Apply(t) ==
  /\ commandOptionsForProcessesToRun' = t.commandOptionsForProcessesToRun
  /\ spawnedProcessObjects' = t.spawnedProcessObjects
  /\ initialStdinDataForNextProcess' = t.initialStdinDataForNextProcess
  /\ isRunning' = t.isRunning
  /\ xterm' = t.xterm
  /\ endCalls' = t.endCalls
  /\ procs' = t.procs

\* The record of the handler that ran: its name, the stage index bound to
\* it, isRunning on entry, whether it threw, and whether kill() has been
\* called at any time since runCommand was invoked.
Op(op, idx, t) ==
  [op |-> op, idx |-> idx, running |-> isRunning, threw |-> t.threw,
   killed |-> lastOp.killed \/ (op = "kill" /\ pc # "init")]

\* runCommand up to its await.  parse() is called outside the try block: a
\* syntax error rejects runCommand's promise and nothing else happens.
RunCommand ==
  /\ pc = "init"
  /\ LET commandAst == commandString.statements
     IN  IF ~commandString.syntaxOk
         THEN /\ pc' = "rejected"
              /\ Apply(This)
              /\ lastOp' = Op("runCommand", -1, [This EXCEPT !.threw = TRUE])
         ELSE IF Len(commandAst) > 1
         THEN /\ pc' = "done"
              /\ Apply(RunCommandCatch(This, JsError("Error", "Only one command permitted")))
              /\ lastOp' = Op("runCommand", -1, This)
         ELSE IF Len(commandAst) = 0
         THEN /\ pc' = "done"
              /\ Apply(RunCommandCatch(This, JsError("TypeError", "Cannot read property 'type' of undefined")))
              /\ lastOp' = Op("runCommand", -1, This)
         ELSE IF commandAst[1].type # "command"
         THEN /\ pc' = "done"
              /\ Apply(RunCommandCatch(This, JsError("Error", "Only commands allowed")))
              /\ lastOp' = Op("runCommand", -1, This)
         ELSE /\ pc' = "resolving"
              /\ Apply(This)
              /\ lastOp' = Op("runCommand", -1, This)
  /\ UNCHANGED commandString

\* runCommand with the await of getCommandOptionsFromAST outside the try
\* block: a rejection rejects runCommand's promise and nothing is reported.
RunCommandResume_Uncaught ==
  /\ pc = "resolving"
  /\ LET result == GetCommandOptionsFromAST(commandString.statements[1])
     IN  IF ~result.ok
         THEN /\ Apply(This)
              /\ pc' = "rejected"
              /\ lastOp' = Op("resume", -1, [This EXCEPT !.threw = TRUE])
         ELSE /\ Apply(TryToSpawnProcess(
                         [This EXCEPT !.commandOptionsForProcessesToRun = result.value,
                                      !.isRunning = TRUE], 0))
              /\ pc' = "done"
              /\ lastOp' = Op("resume", -1, This)
  /\ UNCHANGED commandString

\* runCommand after await getCommandOptionsFromAST(...), up to the await
\* inside spawnProcess.
RunCommandResume ==
  /\ pc = "resolving"
  /\ LET result == GetCommandOptionsFromAST(commandString.statements[1])
     IN  IF ~result.ok
         THEN Apply(RunCommandCatch(This, result.error))
         ELSE Apply(TryToSpawnProcess(
                      [This EXCEPT !.commandOptionsForProcessesToRun = result.value,
                                   !.isRunning = TRUE], 0))
  /\ pc' = "done"
  /\ lastOp' = Op("resume", -1, This)
  /\ UNCHANGED commandString

\* The continuation of spawnProcess for a process object that was created
\* and is not yet recorded and started.
SpawnResume(h) ==
  /\ procs[h].status = "created"
  /\ Apply(SpawnProcessResume(This, h))
  /\ lastOp' = Op("spawn", procs[h].idx, This)
  /\ UNCHANGED <<commandString, pc>>

\* A started unit hands over the next n bytes of its output.
UnitData(h, n) ==
  /\ procs[h].status = "started"
  /\ LET p == procs[h]
         all == ProgramOutput(p.options, p.stdin)
         data == SubSeq(all, Len(p.out) + 1, Len(p.out) + n)
     IN  /\ Len(p.out) + n <= Len(all)
         /\ Apply(ProcessDataCallback([This EXCEPT !.procs[h].out = @ \o data], p.idx, data))
  /\ lastOp' = Op("data", procs[h].idx, This)
  /\ UNCHANGED <<commandString, pc>>

\* A started unit that has written all its output ends.
UnitEnd(h) ==
  /\ procs[h].status = "started"
  /\ procs[h].out = ProgramOutput(procs[h].options, procs[h].stdin)
  /\ Apply(ProcessEndCallback([This EXCEPT !.procs[h].status = "ended"], procs[h].idx))
  /\ lastOp' = Op("end", procs[h].idx, This)
  /\ UNCHANGED <<commandString, pc>>

\* A started unit reports an error.
UnitError(h, error) ==
  /\ procs[h].status = "started"
  /\ LET t == ProcessErrorCallback([This EXCEPT !.procs[h].status = "errored"], procs[h].idx, error)
     IN  /\ Apply(t)
         /\ lastOp' = Op("error", procs[h].idx, t)
  /\ UNCHANGED <<commandString, pc>>

\* kill() called from outside, at any point after construction.
KillCall ==
  /\ Apply(Kill(This))
  /\ lastOp' = Op("kill", -1, This)
  /\ UNCHANGED <<commandString, pc>>

Next ==
  \/ RunCommand
  \/ RunCommandResume
  \/ \E h \in 1..Len(procs) : SpawnResume(h)
  \/ \E h \in 1..Len(procs), n \in 1..MaxChunk : UnitData(h, n)
  \/ \E h \in 1..Len(procs) : UnitEnd(h)
  \/ \E h \in 1..Len(procs), error \in ErrorMessages : UnitError(h, error)
  \/ KillCall

Spec == Init /\ [][Next]_vars

\* A run in which no unit reports an error and kill() is never called; every
\* continuation the event loop holds is eventually resumed, and every started
\* unit eventually hands over its output and signals its end.
NextNormal ==
  \/ RunCommand
  \/ RunCommandResume
  \/ \E h \in 1..Len(procs) : SpawnResume(h)
  \/ \E h \in 1..Len(procs), n \in 1..MaxChunk : UnitData(h, n)
  \/ \E h \in 1..Len(procs) : UnitEnd(h)

LiveSpec ==
  /\ Init
  /\ [][NextNormal]_vars
  /\ WF_vars(RunCommand)
  /\ WF_vars(RunCommandResume)
  /\ WF_vars(\E h \in 1..Len(procs) : SpawnResume(h))
  /\ WF_vars(\E h \in 1..Len(procs), n \in 1..MaxChunk : UnitData(h, n))
  /\ WF_vars(\E h \in 1..Len(procs) : UnitEnd(h))

TypeOK ==
  /\ pc \in {"init", "resolving", "done", "rejected"}
  /\ isRunning \in BOOLEAN
  /\ endCalls \in Nat
  /\ \A k \in 1..Len(spawnedProcessObjects) : spawnedProcessObjects[k] \in 1..Len(procs)

-----------------------------------------------------------------------------
(* Properties *)

Live == {spawnedProcessObjects[k] : k \in 1..Len(spawnedProcessObjects)}

\* C1: the completion callback is invoked exactly once per run, whichever
\* path ends it: never more than once, and once when the run is over.
C1_CompletionExactlyOnce ==
  /\ endCalls <= 1
  /\ (pc = "done" /\ ~isRunning) => endCalls = 1

\* C2: the number of live execution units never exceeds 2.
C2_LiveUnitsAtMostTwo == Len(spawnedProcessObjects) <= 2

C2_Witness ==
  /\ Len(procs) = 3
  /\ procs[3].status = "started"
  /\ Len(spawnedProcessObjects) = 1

\* The command line has several top-level statements, or its one statement
\* is not a simple command.
ParseFails ==
  /\ commandString.syntaxOk
  /\ \/ Len(commandString.statements) > 1
     \/ /\ Len(commandString.statements) = 1
        /\ commandString.statements[1].type # "command"

\* C3: for a command line with several statements or a statement that is not
\* a command, runCommand writes the parse-error diagnostic, spawns no unit,
\* leaves isRunning false and invokes the completion callback exactly once.
C3_ParseFailure ==
  ParseFails =>
    /\ procs = <<>>
    /\ spawnedProcessObjects = <<>>
    /\ ~isRunning
    /\ pc \in {"init", "done"}
    /\ pc = "init" => (xterm = <<>> /\ endCalls = 0)
    /\ pc = "done" =>
         /\ endCalls = 1
         /\ xterm = WriteText(<<"wapm shell: parse error (", "Error", ": ",
                                IF Len(commandString.statements) > 1
                                THEN "Only one command permitted"
                                ELSE "Only commands allowed",
                                ")\r\n">>)

C3_Witness ==
  /\ ParseFails
  /\ pc = "done"
  /\ lastOp.op = "kill"
  /\ Len(xterm) = 5

\* C4: an error reported by a unit of stage i while the run is running writes
\* exactly the diagnostic "Program <args[0] of spec i>: <message>\r\n",
\* leaves no live unit running, empties the command options and the live
\* set, and clears isRunning.
C4_ErrorWhileRunning ==
  [][\A h \in 1..Len(procs) : \A error \in ErrorMessages :
       (isRunning /\ UnitError(h, error)) =>
          /\ xterm' = xterm \o WriteText(
               <<"Program ",
                 commandOptionsForProcessesToRun[procs[h].idx + 1].args[1],
                 ": ", error, "\r\n">>)
          /\ commandOptionsForProcessesToRun' = <<>>
          /\ spawnedProcessObjects' = <<>>
          /\ ~isRunning'
          /\ \A g \in Live : procs'[g].status \notin {"created", "started"}]_vars

C4_Witness ==
  /\ lastOp.op = "error"
  /\ lastOp.running
  /\ lastOp.idx = 1
  /\ ~lastOp.threw

\* C5: kill() while not running changes nothing of the runner's state and
\* does not invoke the completion callback.
C5_KillWhileIdle ==
  [][(KillCall /\ ~isRunning) =>
       UNCHANGED <<commandOptionsForProcessesToRun, spawnedProcessObjects,
                   initialStdinDataForNextProcess, isRunning, endCalls,
                   xterm, procs>>]_vars

C5_Witness ==
  /\ lastOp.op = "kill"
  /\ ~lastOp.running
  /\ pc = "done"
  /\ endCalls >= 1
  /\ Len(procs) >= 1

\* The output of the unit of stage i - 1, for a unit of stage i >= 1.
UpstreamOut(h) ==
  LET g == CHOOSE g \in 1..Len(procs) : procs[g].idx = procs[h].idx - 1
  IN  procs[g].out

\* C6: the bytes a non-final stage emits while the next stage is not yet
\* spawned accumulate in initialStdinDataForNextProcess in emission order;
\* the next stage receives exactly that concatenation as its initial stdin,
\* and the buffer is empty once it is spawned.
C6_BufferedHandOff ==
  /\ \A h \in 1..Len(procs) :
       /\ ( /\ isRunning
            /\ h = Len(procs)
            /\ procs[h].status # "created"
            /\ procs[h].idx < Len(commandOptionsForProcessesToRun) - 1 )
          => initialStdinDataForNextProcess = procs[h].out
       /\ procs[h].idx >= 1 =>
            /\ \E g \in 1..Len(procs) : procs[g].idx = procs[h].idx - 1
            /\ procs[h].initialStdin = UpstreamOut(h)
  /\ lastOp.op = "spawn" => initialStdinDataForNextProcess = <<>>

C6_Witness ==
  /\ lastOp.op = "spawn"
  /\ Len(procs) = 3
  /\ procs[3].status = "started"
  /\ Len(procs[3].initialStdin) > MaxChunk + 1
  /\ procs[3].initialStdin = procs[2].out
  /\ initialStdinDataForNextProcess = <<>>

\* The three stages of a run all ended normally and the run is over.
ThreeStagesEnded ==
  /\ Len(commandString.chain) = 3
  /\ Len(commandOptionsForProcessesToRun) = 3
  /\ pc = "done"
  /\ ~isRunning
  /\ Len(procs) = 3
  /\ \A h \in 1..3 : procs[h].status = "ended"

\* transform_c(transform_b(transform_a(input))) for the written chain; the
\* first stage is given no input.
Composed ==
  LET o == commandOptionsForProcessesToRun
  IN  ProgramOutput(o[3], ProgramOutput(o[2], ProgramOutput(o[1], <<>>)))

\* C7: for a 3-stage pipeline whose stages all end normally, the text on the
\* terminal is the composed transform of the three stages, decoded, with
\* each line feed replaced by carriage return + line feed.
C7_ThreeStageOutput ==
  ThreeStagesEnded => xterm = WriteChars(ReplaceLF(TextDecode(Composed)))

\* The written chain is joined by pipes only and every command resolves.
PipeChain ==
  /\ commandString.syntaxOk
  /\ Len(commandString.statements) = 1
  /\ Len(commandString.chain) >= 1
  /\ \A k \in 1..Len(commandString.chain) :
       /\ commandString.chain[k].command \in Resolvable
       /\ k < Len(commandString.chain) => commandString.chain[k].redirect = "pipe"

\* C8: for a chain of k pipes getCommandOptionsFromAST returns k + 1 command
\* options in the order written, each with args = command name followed by
\* the stage's arguments in order.
C8_OptionsInWrittenOrder ==
  (PipeChain /\ isRunning) =>
     /\ Len(commandOptionsForProcessesToRun) = Len(commandString.chain)
     /\ \A k \in 1..Len(commandString.chain) :
          commandOptionsForProcessesToRun[k].args =
            <<commandString.chain[k].command>> \o commandString.chain[k].args

C8_Witness ==
  /\ PipeChain
  /\ isRunning
  /\ Len(commandString.chain) = 3
  /\ commandString.chain[1].command # commandString.chain[3].command
  /\ commandString.chain[2].command # commandString.chain[3].command

\* C9: stages are spawned in ascending index order from 0, none skipped and
\* none twice: the k-th unit created is the unit of stage k - 1, and a unit
\* is created only once every unit before it has been started.
C9_SpawnOrder ==
  \A k \in 1..Len(procs) :
     /\ procs[k].idx = k - 1
     /\ k < Len(procs) => procs[k].status # "created"

C9_Witness ==
  /\ Len(procs) = 3
  /\ procs[3].status = "ended"

\* C10: after kill() while running, initialStdinDataForNextProcess is empty.
C10_KillDiscardsBuffer ==
  (lastOp.op = "kill" /\ lastOp.running) => initialStdinDataForNextProcess = <<>>

\* C11: whichever path ends a run (end of the last stage, error, kill), the
\* handler that ends it leaves the runner cleared: no command options, no
\* live unit, no buffered input, isRunning false.
C11_TerminalPathsClearState ==
  (lastOp.running /\ ~isRunning) =>
     /\ commandOptionsForProcessesToRun = <<>>
     /\ spawnedProcessObjects = <<>>
     /\ initialStdinDataForNextProcess = <<>>

\* Every stage has been spawned and has ended, and the run is complete.
RunCompleted ==
  /\ ~isRunning
  /\ endCalls >= 1
  /\ Len(procs) = Len(commandOptionsForProcessesToRun)
  /\ \A h \in 1..Len(procs) : procs[h].status = "ended"

\* C12: with no error and no kill(), and every unit eventually ending, a
\* running pipeline eventually has every stage spawned and reaches
\* completion; the end of a non-final stage i creates the unit of stage i + 1.
C12_PipelineAdvances ==
  /\ isRunning ~> RunCompleted
  /\ [][\A h \in 1..Len(procs) :
          (UnitEnd(h) /\ procs[h].idx < Len(commandOptionsForProcessesToRun) - 1) =>
             /\ Len(procs') = Len(procs) + 1
             /\ procs'[Len(procs')].idx = procs[h].idx + 1]_vars

C12_Witness ==
  /\ RunCompleted
  /\ Len(procs) = 3
  /\ endCalls = 1
  /\ lastOp.op = "end"

\* The stages of the pipeline built for the command line, or <<>> when none
\* is built.
Pipeline ==
  IF /\ commandString.syntaxOk
     /\ Len(commandString.statements) = 1
     /\ commandString.statements[1].type = "command"
     /\ GetCommandOptionsFromAST(commandString.statements[1]).ok
  THEN GetCommandOptionsFromAST(commandString.statements[1]).value
  ELSE <<>>

\* C13: a chunk emitted by a non-final stage i reaches stage i + 1 only,
\* unmodified (appended to the buffer, or to the stdin of the live unit of
\* stage i + 1): nothing is written to the terminal and no other unit
\* receives it.
C13_IntermediateBytesRouting ==
  [][\A h \in 1..Len(procs) : \A n \in 1..MaxChunk :
       (UnitData(h, n) /\ procs[h].idx < Len(Pipeline) - 1) =>
          LET data == SubSeq(procs'[h].out, Len(procs[h].out) + 1, Len(procs'[h].out))
          IN  /\ xterm' = xterm
              /\ \A g \in 1..Len(procs) :
                   procs[g].idx # procs[h].idx + 1 => procs'[g].stdin = procs[g].stdin
              /\ \/ initialStdinDataForNextProcess' = initialStdinDataForNextProcess \o data
                 \/ \E g \in 1..Len(procs) :
                      /\ procs[g].idx = procs[h].idx + 1
                      /\ procs'[g].stdin = procs[g].stdin \o data]_vars

IsPrefix(s, t) == Len(s) <= Len(t) /\ s = SubSeq(t, 1, Len(s))

\* The lowest stage index whose unit has not been started.
NextUnspawned == Cardinality({h \in 1..Len(procs) : procs[h].status # "created"})

\* C14: a non-empty initialStdinDataForNextProcess holds only bytes emitted
\* by stage n - 1, n being the lowest stage not yet spawned; the buffer is
\* emptied only by the spawn of a stage, and what was buffered for a stage is
\* handed to that stage and no other.
C14_BufferBelongsToNextStage ==
  /\ [](/\ initialStdinDataForNextProcess # <<>> =>
             /\ NextUnspawned >= 1
             /\ \E g \in 1..Len(procs) :
                  /\ procs[g].idx = NextUnspawned - 1
                  /\ IsPrefix(initialStdinDataForNextProcess, procs[g].out)
        /\ \A h \in 1..Len(procs) :
             procs[h].initialStdin # <<>> =>
                /\ procs[h].idx >= 1
                /\ \A g \in 1..Len(procs) :
                     procs[g].idx = procs[h].idx - 1 => procs[h].initialStdin = procs[g].out)
  /\ [][\/ IsPrefix(initialStdinDataForNextProcess, initialStdinDataForNextProcess')
        \/ /\ initialStdinDataForNextProcess' = <<>>
           /\ \E h \in 1..Len(procs) : SpawnResume(h)]_vars

C14_Witness ==
  /\ Len(procs) = 2
  /\ procs[2].status = "started"
  /\ procs[2].initialStdin # <<>>
  /\ initialStdinDataForNextProcess # <<>>
  /\ initialStdinDataForNextProcess = procs[2].out
  /\ initialStdinDataForNextProcess # procs[2].initialStdin

\* A command of the written pipeline (up to the first stage not joined by a
\* pipe) has no artifact.
ResolutionFails ==
  /\ commandString.syntaxOk
  /\ Len(commandString.statements) = 1
  /\ \E k \in 1..Len(commandString.chain) :
       /\ commandString.chain[k].command \notin Resolvable
       /\ \A j \in 1..(k - 1) : commandString.chain[j].redirect = "pipe"

\* C15: when the artifact of a stage cannot be resolved, runCommand reports
\* it as a parse error, invokes the completion callback exactly once, spawns
\* no unit and leaves isRunning false.
C15_ResolutionFailure ==
  ResolutionFails =>
    /\ procs = <<>>
    /\ spawnedProcessObjects = <<>>
    /\ ~isRunning
    /\ commandOptionsForProcessesToRun = <<>>
    /\ pc \in {"init", "resolving", "done"}
    /\ pc # "done" => (xterm = <<>> /\ endCalls = 0)
    /\ pc = "done" =>
         /\ endCalls = 1
         /\ Len(xterm) = 5
         /\ xterm[1] = [str |-> "wapm shell: parse error (", ch |-> -1]
         /\ xterm[3].str = ": "
         /\ xterm[4].str = "command not found"
         /\ xterm[5] = [str |-> ")\r\n", ch |-> -1]

C15_Witness ==
  /\ ResolutionFails
  /\ Len(commandString.chain) = 3
  /\ commandString.chain[1].command \in Resolvable
  /\ commandString.chain[2].command \in Resolvable
  /\ pc = "done"
  /\ endCalls = 1
  /\ lastOp.killed

\* C16: when the end callback of stage i fires during a run, the unit at
\* the head of the live set, which the callback removes, is the unit of
\* stage i; the live set lists live units in spawn order, and an end
\* callback never removes the unit of another stage.
C16_EndRemovesOwnUnit ==
  /\ [](\A j, k \in 1..Len(spawnedProcessObjects) :
          j < k => procs[spawnedProcessObjects[j]].idx < procs[spawnedProcessObjects[k]].idx)
  /\ [][\A h \in 1..Len(procs) :
          UnitEnd(h) =>
             /\ isRunning => (spawnedProcessObjects # <<>> /\ Head(spawnedProcessObjects) = h)
             /\ spawnedProcessObjects # <<>> => Head(spawnedProcessObjects) = h]_vars

C16_Witness ==
  /\ lastOp.op = "end"
  /\ lastOp.running
  /\ lastOp.idx = 1
  /\ Len(procs) = 3
  /\ spawnedProcessObjects = <<>>

\* C17: at most one unit is live, at most one unit runs at a time, and no
\* unit ever receives a chunk through receiveStdinChunk.
C17_OneUnitAtATime ==
  /\ Len(spawnedProcessObjects) <= 1
  /\ Cardinality({h \in 1..Len(procs) : procs[h].status = "started"}) <= 1
  /\ \A h \in 1..Len(procs) : procs[h].stdin = procs[h].initialStdin

C17_Witness ==
  /\ lastOp.op = "data"
  /\ lastOp.idx = 1
  /\ Len(commandOptionsForProcessesToRun) = 3
  /\ Len(spawnedProcessObjects) = 1
  /\ procs[1].status = "ended"
  /\ initialStdinDataForNextProcess # <<>>

\* C18: once kill() has been called after runCommand was invoked, no unit
\* is started any more and the live set stays empty.
C18_NothingStartsAfterKill ==
  lastOp.killed =>
    /\ spawnedProcessObjects = <<>>
    /\ lastOp.op # "spawn"

\* C19: once the completion callback has been invoked, nothing more is
\* written to the terminal.
C19_SilentAfterCompletion ==
  [][endCalls >= 1 => xterm' = xterm]_vars

\* C20: whenever processErrorCallback runs for stage i,
\* commandOptionsForProcessesToRun has an element at index i: reading its
\* args[0] never throws.
C20_ErrorCallbackFindsOptions ==
  lastOp.op = "error" => ~lastOp.threw

====
